---- MODULE Spec2Model ----
(***************************************************************************)
(* Model of ishell's command.go: argument declarations (NewCmdArg,         *)
(* AddCmdArg), Cmd.ParseArgs with its helpers (is_long_arg, is_short_arg,  *)
(* find_arg, find_positional, initial_pass, validate_int, validate_args),  *)
(* and the command tree (AddCmd, DeleteCmd, Children, hasSubcommand,       *)
(* findChildCmd, FindCmd).  Spec runs the parser, SpecTree the calls on    *)
(* the tree, SpecDecl NewCmdArg alone, SpecFlagValue the parser on one     *)
(* Integer flag and its value, SpecPure the parser between calls on the    *)
(* tree.  The order in which Go ranges over a map is unspecified: every    *)
(* order is a possible outcome.                                            *)
(*                                                                         *)
(* Go strings are modelled as sequences of one-character strings, so that  *)
(* prefix tests, regular expressions and the short-flag expansion are      *)
(* computed character by character.  Declaration indexes are 0-based as in *)
(* the Go code; arglist and arg_mask are TLA+ sequences, so the element    *)
(* of index k is found at position k + 1.                                  *)
(***************************************************************************)
EXTENDS Integers, Sequences, FiniteSets, TLC

\* ---------------------------------------------------------------- bounds
\* most declarations a command gets through AddCmdArg
MaxArgs == 3
\* most tokens handed to one ParseArgs call
MaxTokens == 2

\* ------------------------------------------------------------- constants
IntType == 0
StringType == 1
BoolType == 2
\* find_arg and find_positional answer -1 when nothing is found
NotFound == -1

Digits == {"0", "1", "2", "3", "4", "5", "6", "7", "8", "9"}
Letters ==
  {"a", "b", "c", "d", "e", "f", "g", "h", "i", "j", "k", "l", "m",
   "n", "o", "p", "q", "r", "s", "t", "u", "v", "w", "x", "y", "z",
   "A", "B", "C", "D", "E", "F", "G", "H", "I", "J", "K", "L", "M",
   "N", "O", "P", "Q", "R", "S", "T", "U", "V", "W", "X", "Y", "Z"}
\* the class [a-zA-Z0-9] of NewCmdArg's regular expressions
Alnum == Letters \cup Digits
\* the class [a-zA-Z0-9_-]
KeyChar == Alnum \cup {"_", "-"}

\* most digits of an integer value handed to an Integer flag
MaxDigits == 2

\* ------------------------------------------------ inputs of the model
\* (flag, longFlag, typ, canHaveMultiple, required) tuples handed to
\* NewCmdArg; the last two are rejected by it.
DeclInputs ==
  { << <<"-", "x">>, <<"-", "-", "a", "b">>, IntType,    FALSE, TRUE  >>,
    << <<"-", "y">>, <<"-", "-", "c", "d">>, BoolType,   FALSE, FALSE >>,
    << <<>>,         <<"p", "1">>,           IntType,    FALSE, TRUE  >>,
    << <<>>,         <<"p", "2">>,           StringType, TRUE,  FALSE >>,
    << <<>>,         <<"p", "3">>,           BoolType,   FALSE, FALSE >>,
    << <<"-", "x">>, <<"-", "a", "b">>,      IntType,    FALSE, FALSE >> }

\* tokens a caller may hand to ParseArgs
Tokens ==
  { <<"-", "x">>, <<"-", "y">>, <<"-", "x", "y">>, <<"-", "-", "a", "b">>,
    <<"1">>, <<>> }

\* the flag, longFlag and typ arguments tried on NewCmdArg alone
FlagPool == { <<>>, <<"-", "x">>, <<"-", "-">>, <<"x">>, <<"-", "x", "y">> }
LongFlagPool ==
  { <<>>, <<"-", "-", "a", "b">>, <<"-", "-", "a">>, <<"-", "-", "a", "_", "-">>,
    <<"-", "-", "-", "a">>, <<"-", "-", "a", ".">>, <<"-", "-">>,
    <<"a", "b">>, <<"a">>, <<"a", "-", "_">>, <<"_", "a">>, <<"a", ".">>,
    <<"-", "a", "b">> }
TypPool == -1..3
DeclPool == FlagPool \X LongFlagPool \X TypPool \X BOOLEAN \X BOOLEAN

\* the declarations of one Integer flag, the tokens that name it (alone and
\* twice in a cluster) and the integers handed to it: an optional sign and
\* up to MaxDigits digits
IntFlagDecls ==
  { << <<"-", "x">>, <<"-", "-", "a", "b">>, IntType, m, r >> : m, r \in BOOLEAN }
IntFlagTokens == { <<"-", "x">>, <<"-", "x", "x">> }
DigitSeqs == UNION { [1..n -> {"1", "2"}] : n \in 1..MaxDigits }
IntValues == { sign \o ds : sign \in { <<>>, <<"-">>, <<"+">> }, ds \in DigitSeqs }

TokenSeqs == UNION { [1..n -> Tokens] : n \in 0..MaxTokens }

\* ------------------------------------------------------------ helpers
\* no *CmdArg
Nil == [nil |-> TRUE]

\* an error value: the kind of the message and what the message names
Err(kind, tok, idx, key) == [kind |-> kind, tok |-> tok, idx |-> idx, key |-> key]
NoErr == Err("nil", <<>>, NotFound, <<>>)

\* the zero value of ParsedArg (var temp_arg ParsedArg)
ZeroParsedArg == [Index |-> 0, Key |-> <<>>, Typ |-> 0, Value |-> <<>>]

\* Check to see if the string is a long argument param
is_long_arg(str) == Len(str) > 2 /\ SubSeq(str, 1, 2) = <<"-", "-">>

\* Check to see if the string is a short argument param
\* (the second character is not looked at)
is_short_arg(str) == Len(str) > 1 /\ SubSeq(str, 1, 1) = <<"-">>

\* ^-[a-zA-Z0-9]$ together with len(flag) == 2
ValidFlag(flag) == Len(flag) = 2 /\ flag[1] = "-" /\ flag[2] \in Alnum

\* ^[a-zA-Z0-9][a-zA-Z0-9_-]+$
ValidPositionalKey(s) ==
  /\ Len(s) >= 2
  /\ s[1] \in Alnum
  /\ \A k \in 2..Len(s) : s[k] \in KeyChar

\* len(longFlag) > 3 and ^--[a-zA-Z0-9][a-zA-Z0-9_-]+$
ValidLongFlag(s) ==
  /\ Len(s) > 3
  /\ s[1] = "-" /\ s[2] = "-"
  /\ s[3] \in Alnum
  /\ \A k \in 4..Len(s) : s[k] \in KeyChar

\* NewCmdArg: the *CmdArg it returns, Nil when it returns an error
NewCmdArg_BoolPositional(flag, longFlag, typ, canHaveMultiple, required) ==
  LET positional == ~is_long_arg(longFlag) /\ flag = <<>> IN
  IF flag # <<>> /\ ~ValidFlag(flag) THEN Nil
  ELSE IF longFlag = <<>> THEN Nil
  ELSE IF positional /\ ~ValidPositionalKey(longFlag) THEN Nil
  ELSE IF ~positional /\ ~ValidLongFlag(longFlag) THEN Nil
  ELSE IF typ < 0 \/ typ > 2 THEN Nil
  ELSE [flag |-> flag, longFlag |-> longFlag, typ |-> typ,
        positional |-> positional, canHaveMultiple |-> canHaveMultiple,
        required |-> required]
NewCmdArg(flag, longFlag, typ, canHaveMultiple, required) ==
  LET positional == ~is_long_arg(longFlag) /\ flag = <<>> IN
  IF flag # <<>> /\ ~ValidFlag(flag) THEN Nil
  ELSE IF longFlag = <<>> THEN Nil
  ELSE IF positional /\ ~ValidPositionalKey(longFlag) THEN Nil
  ELSE IF positional /\ typ = BoolType THEN Nil
  ELSE IF ~positional /\ ~ValidLongFlag(longFlag) THEN Nil
  ELSE IF typ < 0 \/ typ > 2 THEN Nil
  ELSE [flag |-> flag, longFlag |-> longFlag, typ |-> typ,
        positional |-> positional, canHaveMultiple |-> canHaveMultiple,
        required |-> required]

\* find_arg: index of the first declaration arg matches, NotFound if none
find_arg(c, arg) ==
  LET is_long == is_long_arg(arg)
      hits == { k \in 1..Len(c) :
                  \/ (is_long /\ c[k].longFlag = arg)
                  \/ c[k].flag = arg }
  IN IF ~(is_long # is_short_arg(arg)) THEN NotFound
     ELSE IF hits = {} THEN NotFound
     ELSE (CHOOSE k \in hits : \A m \in hits : k <= m) - 1

\* find_positional as it would be if an empty slot anywhere were preferred
\* to a multi-valued slot declared earlier
find_positional_ZeroFirst(c, arg_mask) ==
  LET zeros == { k \in 1..Len(c) : c[k].positional /\ arg_mask[k] = 0 }
      multis == { k \in 1..Len(c) : c[k].positional /\ c[k].canHaveMultiple }
  IN IF zeros # {} THEN (CHOOSE k \in zeros : \A m \in zeros : k <= m) - 1
     ELSE IF multis # {} THEN (CHOOSE k \in multis : \A m \in multis : k <= m) - 1
     ELSE NotFound

\* find_positional as it would be without the canHaveMultiple branch
find_positional_EmptyOnly(c, arg_mask) ==
  LET zeros == { k \in 1..Len(c) : c[k].positional /\ arg_mask[k] = 0 }
  IN IF zeros # {} THEN (CHOOSE k \in zeros : \A m \in zeros : k <= m) - 1
     ELSE NotFound

\* find_positional: the first positional declaration that has no occurrence
\* yet or that can have multiple occurrences
find_positional(c, arg_mask) ==
  LET hits == { k \in 1..Len(c) :
                  c[k].positional /\ (arg_mask[k] = 0 \/ c[k].canHaveMultiple) }
  IN IF hits = {} THEN NotFound
     ELSE (CHOOSE k \in hits : \A m \in hits : k <= m) - 1

\* the tokens "-" + char for every character after the dash
RECURSIVE SplitChars(_)
SplitChars(without_dash) ==
  IF without_dash = <<>> THEN <<>>
  ELSE << <<"-", Head(without_dash)>> >> \o SplitChars(Tail(without_dash))

\* initial_pass as it would be if it never split a token
ExpandArg_NoSplit(arg) == <<arg>>

\* what initial_pass appends to ret for one arg
ExpandArg(arg) ==
  IF is_short_arg(arg) /\ ~is_long_arg(arg) /\ Len(arg) > 2
  THEN SplitChars(Tail(arg))
  ELSE <<arg>>

\* initial_pass: split up arguments that can be put together
RECURSIVE initial_pass(_)
initial_pass(as) ==
  IF as = <<>> THEN <<>>
  ELSE ExpandArg(Head(as)) \o initial_pass(Tail(as))

\* validate_int as it would be if the error of Atoi were dropped
validate_int_ErrorDropped(value) == TRUE

\* validate_int: strconv.Atoi(value) succeeds, i.e. an optional sign and
\* then one or more decimal digits (the tokens of the model are too short
\* to leave the range of int)
validate_int(value) ==
  LET body == IF value # <<>> /\ Head(value) \in {"+", "-"}
              THEN Tail(value) ELSE value
  IN body # <<>> /\ \A k \in 1..Len(body) : body[k] \in Digits

\* validate_args as it would be without the required check
validate_args_NoRequired(c, arg_mask, parsed) ==
  LET empties == { k \in 1..Len(parsed) :
                     parsed[k].Typ # BoolType /\ parsed[k].Value = <<>> }
      firstEmpty == CHOOSE k \in empties : \A m \in empties : k <= m
      bad == { k \in 1..Len(c) : ~c[k].canHaveMultiple /\ arg_mask[k] > 1 }
      firstBad == CHOOSE k \in bad : \A m \in bad : k <= m
  IN IF empties # {}
     THEN Err("RequiresValue", <<>>, NotFound, parsed[firstEmpty].Key)
     ELSE IF bad = {} THEN NoErr
     ELSE Err("DuplicateArgument", <<>>, NotFound, c[firstBad].longFlag)

\* validate_args as it would be without the multiplicity check
validate_args_NoDuplicate(c, arg_mask, parsed) ==
  LET empties == { k \in 1..Len(parsed) :
                     parsed[k].Typ # BoolType /\ parsed[k].Value = <<>> }
      firstEmpty == CHOOSE k \in empties : \A m \in empties : k <= m
      bad == { k \in 1..Len(c) : c[k].required /\ ~(arg_mask[k] > 0) }
      firstBad == CHOOSE k \in bad : \A m \in bad : k <= m
  IN IF empties # {}
     THEN Err("RequiresValue", <<>>, NotFound, parsed[firstEmpty].Key)
     ELSE IF bad = {} THEN NoErr
     ELSE Err("MissingRequiredArgument", <<>>, NotFound, c[firstBad].longFlag)

\* validate_args: the error of the first failed check, NoErr if none
validate_args(c, arg_mask, parsed) ==
  LET empties == { k \in 1..Len(parsed) :
                     parsed[k].Typ # BoolType /\ parsed[k].Value = <<>> }
      firstEmpty == CHOOSE k \in empties : \A m \in empties : k <= m
      bad == { k \in 1..Len(c) :
                 \/ (c[k].required /\ ~(arg_mask[k] > 0))
                 \/ (~c[k].canHaveMultiple /\ arg_mask[k] > 1) }
      firstBad == CHOOSE k \in bad : \A m \in bad : k <= m
  IN IF empties # {}
     THEN Err("RequiresValue", <<>>, NotFound, parsed[firstEmpty].Key)
     ELSE IF bad = {} THEN NoErr
     ELSE IF c[firstBad].required /\ ~(arg_mask[firstBad] > 0)
     THEN Err("MissingRequiredArgument", <<>>, NotFound, c[firstBad].longFlag)
     ELSE Err("DuplicateArgument", <<>>, NotFound, c[firstBad].longFlag)

\* the append as it would be if new occurrences were put in front
Emit_Prepend(parsed, occ) == <<occ>> \o parsed

\* ret = append(ret, temp_arg)
Emit(parsed, occ) == Append(parsed, occ)

\* arg_mask[index] += 1
Count(arg_mask, index) == [arg_mask EXCEPT ![index + 1] = @ + 1]

\* the locals of ParseArgs before its loop
StartScan_AwaitingLeft(c) ==
  [ret |-> <<>>, arg_mask |-> [k \in 1..Len(c) |-> 0],
   temp_arg |-> ZeroParsedArg, awaiting_value |-> TRUE, err |-> NoErr]
StartScan(c) ==
  [ret |-> <<>>, arg_mask |-> [k \in 1..Len(c) |-> 0],
   temp_arg |-> ZeroParsedArg, awaiting_value |-> FALSE, err |-> NoErr]

\* the loop body for a token that find_arg matched (index # -1)
OnFlag(c, st, index) ==
  LET t == [Index |-> index, Key |-> c[index + 1].longFlag,
            Typ |-> c[index + 1].typ, Value |-> <<>>]
  IN IF c[index + 1].typ # BoolType
     THEN [st EXCEPT !.temp_arg = t, !.awaiting_value = TRUE]
     ELSE [st EXCEPT !.temp_arg = t, !.ret = Emit(@, t),
                     !.arg_mask = Count(@, index)]

\* the loop body for an unmatched token while awaiting_value is true
OnValue(c, st, arg) ==
  IF st.temp_arg.Typ = IntType /\ ~validate_int(arg)
  THEN [st EXCEPT !.err = Err("InvalidIntegerValue", arg, st.temp_arg.Index, <<>>)]
  ELSE LET t == [st.temp_arg EXCEPT !.Value = arg]
       IN [st EXCEPT !.temp_arg = t, !.ret = Emit(@, t),
                     !.arg_mask = Count(@, t.Index),
                     !.awaiting_value = FALSE]

\* the loop body for an unmatched token while awaiting_value is false
OnPositional_ValueDropped(c, st, arg) ==
  LET index == find_positional(c, st.arg_mask) IN
  IF index # NotFound
  THEN LET t == [Index |-> index, Key |-> c[index + 1].longFlag,
                 Typ |-> c[index + 1].typ, Value |-> <<>>]
       IN IF t.Typ = IntType /\ ~validate_int(arg)
          THEN [st EXCEPT !.temp_arg = t, !.arg_mask = Count(@, index),
                          !.err = Err("InvalidIntegerValue", arg, index, <<>>)]
          ELSE [st EXCEPT !.temp_arg = t, !.arg_mask = Count(@, index),
                          !.ret = Emit(@, t)]
  ELSE [st EXCEPT !.err = Err("UnrecognizedArgument", arg, NotFound, <<>>)]
OnPositional(c, st, arg) ==
  LET index == find_positional(c, st.arg_mask) IN
  IF index # NotFound
  THEN LET t == [Index |-> index, Key |-> c[index + 1].longFlag,
                 Typ |-> c[index + 1].typ, Value |-> arg]
       IN IF t.Typ = IntType /\ ~validate_int(arg)
          THEN [st EXCEPT !.temp_arg = t, !.arg_mask = Count(@, index),
                          !.err = Err("InvalidIntegerValue", arg, index, <<>>)]
          ELSE [st EXCEPT !.temp_arg = t, !.arg_mask = Count(@, index),
                          !.ret = Emit(@, t)]
  ELSE [st EXCEPT !.err = Err("UnrecognizedArgument", arg, NotFound, <<>>)]

\* one iteration of the loop of ParseArgs
ScanToken(c, st, arg) ==
  LET index == find_arg(c, arg) IN
  IF index # NotFound THEN OnFlag(c, st, index)
  ELSE IF st.awaiting_value THEN OnValue(c, st, arg)
  ELSE OnPositional(c, st, arg)

\* the end of ParseArgs as it would be without the trailing-value check
EndScan_NoTrailingCheck(c, st) ==
  [st EXCEPT !.err = validate_args(c, st.arg_mask, st.ret)]

\* what follows the loop: the trailing-value check and validate_args
EndScan(c, st) ==
  IF st.awaiting_value
  THEN [st EXCEPT !.err = Err("MissingValue", <<>>, NotFound, <<>>)]
  ELSE [st EXCEPT !.err = validate_args(c, st.arg_mask, st.ret)]

\* the loop of ParseArgs from token k on; it returns at the first error
RECURSIVE ScanFrom(_, _, _, _)
ScanFrom(c, st, toks, k) ==
  IF st.err # NoErr THEN st
  ELSE IF k > Len(toks) THEN EndScan(c, st)
  ELSE ScanFrom(c, ScanToken(c, st, toks[k]), toks, k + 1)

\* ParseArgs as a function: the pair (ret, err) it returns
ParseArgs(c, as) ==
  LET st == ScanFrom(c, StartScan(c), initial_pass(as), 1)
  IN <<st.ret, st.err>>


\* ------------------------------------------------- the command tree
\* most tokens handed to one FindCmd call
MaxPath == 2

\* no *Cmd
NoCmd == 0

\* the commands of the model: their Name and Aliases fields
CmdRoot == 1
CmdA == 2
CmdB == 3
CmdA2 == 4
CmdHelp == 5
Cmds == {CmdRoot, CmdA, CmdB, CmdA2, CmdHelp}

Name(c) ==
  CASE c = CmdRoot -> <<"r">>
    [] c = CmdA    -> <<"a">>
    [] c = CmdB    -> <<"b">>
    [] c = CmdA2   -> <<"a">>
    [] c = CmdHelp -> <<"h", "e", "l", "p">>

Aliases(c) ==
  CASE c = CmdRoot -> <<>>
    [] c = CmdA    -> << <<"x">>, <<"b">> >>
    [] c = CmdB    -> << <<"x">> >>
    [] c = CmdA2   -> <<>>
    [] c = CmdHelp -> <<>>

\* the commands that get subcommands and those that are added as subcommands
Parents == {CmdRoot, CmdA}
Subcommands == {CmdA, CmdB, CmdA2, CmdHelp}

\* the strings handed to DeleteCmd and the tokens handed to FindCmd
LookupNames == { <<"a">>, <<"b">>, <<"x">>, <<"z">> }
DeleteNames == LookupNames \cup { <<"h", "e", "l", "p">> }
Paths == UNION { [1..n -> LookupNames] : n \in 0..MaxPath }

\* a map[string]*Cmd without entries
EmptyMap == [n \in {} |-> NoCmd]

\* a []string result: nil, or the slice s
NilSlice == [nil |-> TRUE, elems |-> <<>>]
Slice(s) == [nil |-> FALSE, elems |-> s]

\* the values of call and found when nothing was called
NoCall == [op |-> "none", cmd |-> NoCmd, child |-> NoCmd, name |-> <<>>, toks |-> <<>>]
NothingFound == [cmd |-> NoCmd, rest |-> NilSlice]

\* cmd.Aliases holds name
HasAlias(cmd, name) == \E k \in 1..Len(Aliases(cmd)) : Aliases(cmd)[k] = name

\* c.children[cmd.Name] = cmd
AddChild_KeepFirst(m, cmd) ==
  [n \in DOMAIN m \cup {Name(cmd)} |-> IF n \in DOMAIN m THEN m[n] ELSE cmd]
AddChild(m, cmd) ==
  [n \in DOMAIN m \cup {Name(cmd)} |-> IF n = Name(cmd) THEN cmd ELSE m[n]]

\* delete(c.children, name)
DeleteChild_ByAlias(m, name) ==
  [n \in { k \in DOMAIN m : k # name /\ ~HasAlias(m[k], name) } |-> m[n]]
DeleteChild(m, name) == [n \in DOMAIN m \ {name} |-> m[n]]

\* the values of a map, the number of its entries
Values(m) == { m[n] : n \in DOMAIN m }
len(m) == Cardinality(DOMAIN m)

\* the key hasSubcommand looks up
HelpName == <<"h", "e", "l", "p">>

\* hasSubcommand on a command whose children map is m
hasSubcommand_NoHelpCase(m) == len(m) > 0
hasSubcommand(m) ==
  IF len(m) > 1 THEN TRUE
  ELSE IF HelpName \notin DOMAIN m THEN len(m) > 0
  ELSE FALSE

\* the characters of the names above in byte order, and string < on them
Alphabet == <<"a", "b", "e", "h", "l", "p", "r", "x", "z">>
Code(ch) == CHOOSE k \in 1..Len(Alphabet) : Alphabet[k] = ch
StrLess(s, t) ==
  \E k \in 1..(Len(t) + 1) :
    /\ \A j \in 1..(k - 1) : j <= Len(s) /\ j <= Len(t) /\ s[j] = t[j]
    /\ \/ k = Len(s) + 1 /\ k <= Len(t)
       \/ k <= Len(s) /\ k <= Len(t) /\ Code(s[k]) < Code(t[k])

\* cmdSorter.Less on two commands
Less_Reversed(a, b) == StrLess(Name(b), Name(a))
Less(a, b) == StrLess(Name(a), Name(b))

\* sort.Sort(cmdSorter(cmds)): an insertion sort with Less
RECURSIVE Insert(_, _)
Insert(s, x) ==
  IF s = <<>> \/ ~Less(x, s[Len(s)]) THEN Append(s, x)
  ELSE Append(Insert(SubSeq(s, 1, Len(s) - 1), x), s[Len(s)])

RECURSIVE sortCmds(_)
sortCmds(s) ==
  IF s = <<>> THEN <<>>
  ELSE Insert(sortCmds(SubSeq(s, 1, Len(s) - 1)), s[Len(s)])

\* the orders in which range may visit the entries of m
RangeOrders(m) ==
  { o \in [1..len(m) -> DOMAIN m] : \A j, k \in 1..len(m) : o[j] = o[k] => j = k }

\* the results Children can return on a command whose children map is m
Children(m) == { sortCmds([k \in 1..len(m) |-> m[o[k]]]) : o \in RangeOrders(m) }

\* the results findChildCmd can return on a command whose children map is m:
\* the exact match, else the first aliased command in range order, else nil
findChildCmd(m, name) ==
  IF name \in DOMAIN m THEN {m[name]}
  ELSE LET hits == { cmd \in Values(m) : HasAlias(cmd, name) }
       IN  IF hits = {} THEN {NoCmd} ELSE hits

\* args[i:] when the loop returns at the 0-based index i - 1
Remaining_SkipsToken(as, k) == Slice(SubSeq(as, k + 1, Len(as)))
Remaining(as, k) == Slice(SubSeq(as, k, Len(as)))

\* the results FindCmd can return: ch is every command's children map, m the
\* map of c, cmd the command found so far, k the position of the next token
RECURSIVE FindCmdFrom(_, _, _, _, _)
FindCmdFrom(ch, m, cmd, as, k) ==
  IF k > Len(as) THEN { [cmd |-> cmd, rest |-> NilSlice] }
  ELSE UNION { IF cmd1 # NoCmd
                 THEN FindCmdFrom(ch, ch[cmd1], cmd1, as, k + 1)
                 ELSE { [cmd |-> cmd, rest |-> Remaining(as, k)] }
               : cmd1 \in findChildCmd(m, as[k]) }

FindCmd(ch, c, as) == FindCmdFrom(ch, ch[c], NoCmd, as, 1)

\* ------------------------------------------------------------- state
VARIABLES
  arglist,         \* c.arglist: the declarations in the order they were added
  pc,              \* "idle": no call; "scan": in the loop; "done": returned
  args,            \* the argument of the running ParseArgs call
  further_split,   \* its local further_split
  i,               \* position in further_split of the next token (from 1)
  ret,             \* its local ret
  arg_mask,        \* its local arg_mask
  temp_arg,        \* its local temp_arg
  awaiting_value,  \* its local awaiting_value
  err,             \* the error it returns
  children,        \* c.children of every command: name -> command
  made,            \* the commands whose children map is not nil
  call,            \* the last call on the command tree and its arguments
  before,          \* children as it was when that call was made
  found,           \* what FindCmd returned
  listed,          \* what Children returned
  has_sub,         \* what hasSubcommand returned
  decl_in,         \* the arguments of the last NewCmdArg call
  decl_out         \* what it returned

\* the state of the parser, of the command tree, of NewCmdArg
parserVars == <<arglist, pc, args, further_split, i, ret, arg_mask, temp_arg,
                awaiting_value, err>>
treeVars == <<children, made, call, before, found, listed, has_sub>>
declVars == <<decl_in, decl_out>>

vars == <<parserVars, treeVars, declVars>>

\* the locals of the running call as one record
Locals ==
  [ret |-> ret, arg_mask |-> arg_mask, temp_arg |-> temp_arg,
   awaiting_value |-> awaiting_value, err |-> err]

SetLocals(st) ==
  /\ ret' = st.ret
  /\ arg_mask' = st.arg_mask
  /\ temp_arg' = st.temp_arg
  /\ awaiting_value' = st.awaiting_value
  /\ err' = st.err

Init ==
  /\ arglist = <<>>
  /\ pc = "idle"
  /\ args = <<>>
  /\ further_split = <<>>
  /\ i = 1
  /\ ret = <<>>
  /\ arg_mask = <<>>
  /\ temp_arg = ZeroParsedArg
  /\ awaiting_value = FALSE
  /\ err = NoErr
  /\ children = [c \in Cmds |-> EmptyMap]
  /\ made = {}
  /\ call = NoCall
  /\ before = EmptyMap
  /\ found = NothingFound
  /\ listed = <<>>
  /\ has_sub = FALSE
  /\ decl_in = <<>>
  /\ decl_out = Nil

\* AddCmdArg with an argument NewCmdArg returned
AddCmdArg(in) ==
  LET arg == NewCmdArg(in[1], in[2], in[3], in[4], in[5]) IN
  /\ pc = "idle"
  /\ Len(arglist) < MaxArgs
  /\ arg # Nil
  /\ arglist' = Append(arglist, arg)
  /\ UNCHANGED <<pc, args, further_split, i, ret, arg_mask, temp_arg,
                 awaiting_value, err>>
  /\ UNCHANGED <<treeVars, declVars>>

\* ParseArgs is called: its locals are set up and initial_pass has run
CallParseArgs(as) ==
  /\ pc = "idle"
  /\ pc' = "scan"
  /\ args' = as
  /\ further_split' = initial_pass(as)
  /\ i' = 1
  /\ SetLocals(StartScan(arglist))
  /\ UNCHANGED arglist
  /\ UNCHANGED <<treeVars, declVars>>

\* the token the loop is at
CurTok == further_split[i]

InLoop == pc = "scan" /\ i <= Len(further_split)

\* one iteration of the loop; an error makes ParseArgs return
Iterate ==
  LET st == ScanToken(arglist, Locals, CurTok) IN
  /\ SetLocals(st)
  /\ IF st.err # NoErr THEN pc' = "done" /\ i' = i
                       ELSE pc' = pc /\ i' = i + 1
  /\ UNCHANGED <<arglist, args, further_split>>
  /\ UNCHANGED <<treeVars, declVars>>

\* the token matches a declared flag
MatchFlag ==
  /\ InLoop
  /\ find_arg(arglist, CurTok) # NotFound
  /\ Iterate

\* the token matches no flag and a flag awaits its value
TakeValue ==
  /\ InLoop
  /\ find_arg(arglist, CurTok) = NotFound
  /\ awaiting_value
  /\ Iterate

\* the token matches no flag and no flag awaits a value
TakePositional ==
  /\ InLoop
  /\ find_arg(arglist, CurTok) = NotFound
  /\ ~awaiting_value
  /\ Iterate

\* the loop is over: trailing-value check, validate_args, return
Finish ==
  /\ pc = "scan"
  /\ i > Len(further_split)
  /\ SetLocals(EndScan(arglist, Locals))
  /\ pc' = "done"
  /\ UNCHANGED <<arglist, args, further_split, i>>
  /\ UNCHANGED <<treeVars, declVars>>

\* the caller has the result; the locals of the call are gone
Return ==
  /\ pc = "done"
  /\ pc' = "idle"
  /\ args' = <<>>
  /\ further_split' = <<>>
  /\ i' = 1
  /\ ret' = <<>>
  /\ arg_mask' = <<>>
  /\ temp_arg' = ZeroParsedArg
  /\ awaiting_value' = FALSE
  /\ err' = NoErr
  /\ UNCHANGED arglist
  /\ UNCHANGED <<treeVars, declVars>>

Next ==
  \/ \E in \in DeclInputs : AddCmdArg(in)
  \/ \E as \in TokenSeqs : CallParseArgs(as)
  \/ MatchFlag
  \/ TakeValue
  \/ TakePositional
  \/ Finish
  \/ Return

Spec == Init /\ [][Next]_vars

\* ----------------------------------------- calls on the command tree
TreeCall(op, c, child, name, toks) ==
  [op |-> op, cmd |-> c, child |-> child, name |-> name, toks |-> toks]

\* c.AddCmd(cmd)
CallAddCmd(c, cmd) ==
  /\ call' = TreeCall("AddCmd", c, cmd, <<>>, <<>>)
  /\ before' = children[c]
  /\ made' = made \cup {c}
  /\ children' = [children EXCEPT ![c] = AddChild(@, cmd)]
  /\ found' = NothingFound /\ listed' = <<>> /\ has_sub' = FALSE
  /\ UNCHANGED <<parserVars, declVars>>

\* c.DeleteCmd(name)
CallDeleteCmd(c, name) ==
  /\ call' = TreeCall("DeleteCmd", c, NoCmd, name, <<>>)
  /\ before' = children[c]
  /\ children' = [children EXCEPT ![c] = DeleteChild(@, name)]
  /\ found' = NothingFound /\ listed' = <<>> /\ has_sub' = FALSE
  /\ UNCHANGED <<made, parserVars, declVars>>

\* c.FindCmd(as)
CallFindCmd(c, as) ==
  /\ call' = TreeCall("FindCmd", c, NoCmd, <<>>, as)
  /\ before' = children[c]
  /\ found' \in FindCmd(children, c, as)
  /\ listed' = <<>> /\ has_sub' = FALSE
  /\ UNCHANGED <<children, made, parserVars, declVars>>

\* c.Children()
CallChildren(c) ==
  /\ call' = TreeCall("Children", c, NoCmd, <<>>, <<>>)
  /\ before' = children[c]
  /\ listed' \in Children(children[c])
  /\ found' = NothingFound /\ has_sub' = FALSE
  /\ UNCHANGED <<children, made, parserVars, declVars>>

\* c.hasSubcommand()
CallHasSubcommand(c) ==
  /\ call' = TreeCall("hasSubcommand", c, NoCmd, <<>>, <<>>)
  /\ before' = children[c]
  /\ has_sub' = hasSubcommand(children[c])
  /\ found' = NothingFound /\ listed' = <<>>
  /\ UNCHANGED <<children, made, parserVars, declVars>>

NextTree ==
  \/ \E c \in Parents, cmd \in Subcommands : CallAddCmd(c, cmd)
  \/ \E c \in Parents, name \in DeleteNames : CallDeleteCmd(c, name)
  \/ \E c \in Parents, as \in Paths : CallFindCmd(c, as)
  \/ \E c \in Parents : CallChildren(c)
  \/ \E c \in Parents : CallHasSubcommand(c)

SpecTree == Init /\ [][NextTree]_vars

\* ------------------------- ParseArgs on a command with one Integer flag
\* AddCmdArg on a command without declarations
DeclareOnly(in) == arglist = <<>> /\ AddCmdArg(in)

\* ParseArgs([t, v]) on the command once it has its declaration
CallFlagValue(t, v) == arglist # <<>> /\ CallParseArgs(<<t, v>>)

NextFlagValue ==
  \/ \E in \in IntFlagDecls : DeclareOnly(in)
  \/ \E t \in IntFlagTokens, v \in IntValues : CallFlagValue(t, v)
  \/ MatchFlag
  \/ TakeValue
  \/ TakePositional
  \/ Finish
  \/ Return

SpecFlagValue == Init /\ [][NextFlagValue]_vars

\* ------------- ParseArgs on the root command between calls on its tree
\* the declarations, token lists, subcommands and paths of these runs
PureDecls ==
  { << <<"-", "x">>, <<"-", "-", "a", "b">>, IntType,    FALSE, TRUE  >>,
    << <<>>,         <<"p", "2">>,           StringType, TRUE,  FALSE >> }
PureTokens == { <<"-", "x">>, <<"1">> }
PureTokenSeqs == UNION { [1..n -> PureTokens] : n \in 0..MaxTokens }
PureSubcommands == {CmdA, CmdB}
PurePaths == { << <<"a">> >>, << <<"x">> >>, << <<"x">>, <<"z">> >> }

\* the calls are made one after the other: a call on the tree starts when
\* no ParseArgs call is running
BetweenAddCmd(cmd) == pc = "idle" /\ CallAddCmd(CmdRoot, cmd)
BetweenFindCmd(as) == pc = "idle" /\ CallFindCmd(CmdRoot, as)

NextPure ==
  \/ \E in \in PureDecls : AddCmdArg(in)
  \/ \E as \in PureTokenSeqs : CallParseArgs(as)
  \/ MatchFlag
  \/ TakeValue
  \/ TakePositional
  \/ Finish
  \/ Return
  \/ \E cmd \in PureSubcommands : BetweenAddCmd(cmd)
  \/ \E as \in PurePaths : BetweenFindCmd(as)

SpecPure == Init /\ [][NextPure]_vars

\* ------------------------------------------------ calls of NewCmdArg
CallNewCmdArg(in) ==
  /\ decl_in' = in
  /\ decl_out' = NewCmdArg(in[1], in[2], in[3], in[4], in[5])
  /\ UNCHANGED <<parserVars, treeVars>>

NextDecl == \E in \in DeclPool : CallNewCmdArg(in)

SpecDecl == Init /\ [][NextDecl]_vars

\* ------------------------------------------------------ shared notions
Done == pc = "done"
Succeeded == Done /\ err = NoErr
\* the loop ran over every token of further_split
ScanCompleted == Done /\ i > Len(further_split)

\* the stepwise run returns what ParseArgs, as a function, returns
RunMatchesFunction == Done => <<ret, err>> = ParseArgs(arglist, args)

\* 1-based position of the smallest element of a non-empty set of positions
MinOf(S) == CHOOSE k \in S : \A m \in S : k <= m

\* number of occurrences in ret of the declaration at position k of arglist
OccCount(k) == Cardinality({ j \in 1..Len(ret) : ret[j].Index = k - 1 })

\* the occurrence of the declaration at position k with value v
Occurrence(k, v) ==
  [Index |-> k - 1, Key |-> arglist[k].longFlag, Typ |-> arglist[k].typ,
   Value |-> v]

\* the loop is at a token that is handled as a positional candidate
PositionalCandidate ==
  InLoop /\ find_arg(arglist, CurTok) = NotFound /\ ~awaiting_value

\* the step binds the current token to the positional declaration at
\* position k of arglist; k = 0: the parse fails with UnrecognizedArgument
BoundTo(k) ==
  IF k = 0
  THEN pc' = "done" /\ err'.kind = "UnrecognizedArgument" /\ ret' = ret
  ELSE /\ arg_mask' = [arg_mask EXCEPT ![k] = @ + 1]
       /\ err'.kind \in {"nil", "InvalidIntegerValue"}
       /\ err' = NoErr => ret' = Append(ret, Occurrence(k, CurTok))
       /\ err' # NoErr => ret' = ret /\ err'.idx = k - 1

\* ------------------------------------------------------------------ C1
\* C1: a token of the long shape that equals a declaration's longFlag is
\* matched as that declaration's flag: a Boolean declaration emits an
\* occurrence at once, a non-Boolean one stages the pending occurrence and
\* awaits the next token as its value; the token is never handled as a
\* positional candidate nor rejected as unrecognized.
LongFlagDecls ==
  { k \in 1..Len(arglist) : arglist[k].longFlag = CurTok }

C1_LongFlagIsMatched ==
  [][ (InLoop /\ is_long_arg(CurTok) /\ LongFlagDecls # {}) =>
        LET k == MinOf(LongFlagDecls) IN
        /\ err' = NoErr
        /\ temp_arg' = Occurrence(k, <<>>)
        /\ IF arglist[k].typ = BoolType
           THEN ret' = Append(ret, Occurrence(k, <<>>))
           ELSE ret' = ret /\ awaiting_value' ]_vars

\* ------------------------------------------------------------------ C2
\* a cluster token: one leading dash, not long-shaped, length > 2
IsCluster(tok) == Len(tok) > 2 /\ tok[1] = "-" /\ ~is_long_arg(tok)

\* "-c1", ..., "-cn" for the cluster "-c1...cn"
RECURSIVE SingleFlags(_)
SingleFlags(chars) ==
  IF chars = <<>> THEN <<>>
  ELSE << <<"-", Head(chars)>> >> \o SingleFlags(Tail(chars))

\* the token sequence with the cluster at position k replaced in place
ReplaceCluster(as, k) ==
  SubSeq(as, 1, k - 1) \o SingleFlags(Tail(as[k])) \o SubSeq(as, k + 1, Len(as))

\* C2: ParseArgs on a sequence that contains a cluster token returns the
\* same occurrences and the same error as ParseArgs on the sequence with
\* that token replaced in place by its single-character flag tokens.
C2_ClusterExpansion ==
  Done =>
    \A k \in 1..Len(args) :
      IsCluster(args[k]) =>
        <<ret, err>> = ParseArgs(arglist, ReplaceCluster(args, k))

\* a finished parse of a sequence with a cluster whose flags are all
\* declared, followed by a value token
C2_Witness ==
  /\ ScanCompleted
  /\ Len(args) = 2 /\ IsCluster(args[1]) /\ args[2] = <<"1">>
  /\ Len(further_split) = 3
  /\ \A p \in 1..2 : find_arg(arglist, further_split[p]) # NotFound
  /\ Len(ret) >= 2

\* ------------------------------------------------------------------ C3
ZeroSlots ==
  { k \in 1..Len(arglist) : arglist[k].positional /\ arg_mask[k] = 0 }
MultiSlots ==
  { k \in 1..Len(arglist) : arglist[k].positional /\ arglist[k].canHaveMultiple }

\* the slot the claim names: the first empty one, and only if there is none
\* the first that can have multiple occurrences
ZeroThenMulti ==
  IF ZeroSlots # {} THEN MinOf(ZeroSlots)
  ELSE IF MultiSlots # {} THEN MinOf(MultiSlots)
  ELSE 0

\* the first slot that is empty or can have multiple occurrences
FirstEligible ==
  IF ZeroSlots \cup MultiSlots # {} THEN MinOf(ZeroSlots \cup MultiSlots)
  ELSE 0

\* C3 as claimed: a positional candidate is bound to the first positional
\* declaration whose count is zero; only if none has a zero count to the
\* first whose canHaveMultiple is true; else UnrecognizedArgument.
C3_ZeroSlotFirst == [][PositionalCandidate => BoundTo(ZeroThenMulti)]_vars

\* C3 as amended: a positional candidate is bound to the first positional
\* declaration, in declaration order, whose count is zero or whose
\* canHaveMultiple is true; if there is none the parse fails with
\* UnrecognizedArgument.
C3_FirstEligibleSlot == [][PositionalCandidate => BoundTo(FirstEligible)]_vars

\* a multi-valued positional took a second token although a positional
\* declared after it is still empty
C3_Witness ==
  /\ pc \in {"scan", "done"}
  /\ \E k \in 1..Len(arglist) :
       /\ arglist[k].positional /\ arglist[k].canHaveMultiple
       /\ OccCount(k) >= 2
       /\ \E m \in (k + 1)..Len(arglist) :
            arglist[m].positional /\ arg_mask[m] = 0

\* ------------------------------------------------------------------ C4
\* positions of the occurrences of ret that belong to positional declarations
PositionalOccs == { j \in 1..Len(ret) : arglist[ret[j].Index + 1].positional }

\* pairs A < B: A a canHaveMultiple positional, B another positional
MultiBefore ==
  { ab \in (1..Len(arglist)) \X (1..Len(arglist)) :
      /\ ab[1] < ab[2]
      /\ arglist[ab[1]].positional /\ arglist[ab[1]].canHaveMultiple
      /\ arglist[ab[2]].positional }

\* C4 as claimed: with a canHaveMultiple positional A declared before another
\* positional B, every positional token is bound to A and none to B.
C4_AllBoundToA ==
  pc \in {"scan", "done"} =>
    \A ab \in MultiBefore :
      \A j \in PositionalOccs : ret[j].Index = ab[1] - 1

\* C4 as amended: with a canHaveMultiple positional A declared before another
\* positional B, no positional token is ever bound to B, and when no
\* positional is declared before A every positional token is bound to A.
C4_NoneBoundAfterA ==
  pc \in {"scan", "done"} =>
    \A ab \in MultiBefore :
      /\ arg_mask[ab[2]] = 0
      /\ \A j \in PositionalOccs : ret[j].Index # ab[2] - 1
      /\ (\A m \in 1..(ab[1] - 1) : ~arglist[m].positional) =>
           \A j \in PositionalOccs : ret[j].Index = ab[1] - 1

\* two positional tokens, both bound to A = the first declaration, while
\* another positional B is declared after it
C4_Witness ==
  /\ Succeeded
  /\ <<1, 2>> \in MultiBefore
  /\ Len(ret) = 2
  /\ ret[1].Index = 0 /\ ret[2].Index = 0

\* ------------------------------------------------------------------ C5
\* number of consumed tokens that matched the declaration at position k
MatchedTokens(k) ==
  Cardinality({ p \in 1..(i - 1) : find_arg(arglist, further_split[p]) = k - 1 })

\* C5: every Boolean occurrence has an empty value, and every matched
\* Boolean flag token contributes exactly one occurrence and one mask
\* increment, also when it arrives while a non-Boolean flag awaits its value.
C5_BooleanTakesNoValue ==
  pc \in {"scan", "done"} =>
    /\ \A j \in 1..Len(ret) : ret[j].Typ = BoolType => ret[j].Value = <<>>
    /\ \A k \in 1..Len(arglist) :
         arglist[k].typ = BoolType =>
           OccCount(k) = MatchedTokens(k) /\ arg_mask[k] = MatchedTokens(k)

\* ------------------------------------------------------------------ C6
\* C6: when the expanded sequence ends while awaiting_value is still true,
\* ParseArgs fails with MissingValue and never returns success.
C6_MissingValue ==
  (ScanCompleted /\ awaiting_value) => err.kind = "MissingValue"

\* the sequence ended right after a flag that takes a value and some
\* occurrence had been emitted before it
C6_Witness ==
  /\ ScanCompleted /\ awaiting_value
  /\ temp_arg.Typ # BoolType
  /\ Len(ret) >= 1
  /\ err.kind = "MissingValue"

\* ------------------------------------------------------------------ C7
\* the loop and the trailing-value check went through without an error
ScanPassed == ScanCompleted /\ ~awaiting_value

MissingRequired ==
  { k \in 1..Len(arglist) : arglist[k].required /\ OccCount(k) = 0 }
Duplicated ==
  { k \in 1..Len(arglist) : ~arglist[k].canHaveMultiple /\ OccCount(k) > 1 }
EmptyValued ==
  { j \in 1..Len(ret) : ret[j].Typ # BoolType /\ ret[j].Value = <<>> }

\* C7 as claimed: a successful result has an occurrence of every required
\* declaration, and when scanning completes with a required declaration
\* that has none, ParseArgs fails with MissingRequiredArgument.
C7_RequiredAlwaysReported ==
  /\ Succeeded => MissingRequired = {}
  /\ (ScanPassed /\ MissingRequired # {}) =>
       err.kind = "MissingRequiredArgument"

\* C7 as amended: a successful result has an occurrence of every required
\* declaration; when scanning completes with a required declaration that
\* has none, ParseArgs fails, and with MissingRequiredArgument naming the
\* first such declaration unless a non-Boolean occurrence has an empty
\* value or a declaration before it has canHaveMultiple = false and more
\* than one occurrence.
C7_RequiredEnforced ==
  /\ Succeeded => MissingRequired = {}
  /\ (ScanPassed /\ MissingRequired # {}) =>
       /\ err # NoErr
       /\ ( /\ EmptyValued = {}
            /\ \A d \in Duplicated : d > MinOf(MissingRequired) ) =>
            /\ err.kind = "MissingRequiredArgument"
            /\ err.key = arglist[MinOf(MissingRequired)].longFlag

\* a required positional declared after an optional one, one token supplied
C7_Witness ==
  /\ ScanPassed
  /\ err.kind = "MissingRequiredArgument"
  /\ Len(ret) = 1
  /\ \E k \in MissingRequired :
       /\ arglist[k].positional
       /\ \E m \in 1..(k - 1) : arglist[m].positional /\ ~arglist[m].required

\* ------------------------------------------------------------------ C8
\* C8 as claimed: a successful result has at most one occurrence of every
\* declaration with canHaveMultiple = false, and a parse that got more than
\* one fails with DuplicateArgument.
C8_DuplicateAlwaysReported ==
  /\ Succeeded => Duplicated = {}
  /\ (Done /\ Duplicated # {}) => err.kind = "DuplicateArgument"

\* C8 as amended: a successful result has at most one occurrence of every
\* declaration with canHaveMultiple = false; a parse that got more than one
\* fails, and when scanning completes it fails with DuplicateArgument naming
\* the first such declaration unless a non-Boolean occurrence has an empty
\* value or a required declaration before it has no occurrence.
C8_MultiplicityEnforced ==
  /\ Succeeded => Duplicated = {}
  /\ (Done /\ Duplicated # {}) =>
       /\ err # NoErr
       /\ ( /\ ScanPassed
            /\ EmptyValued = {}
            /\ \A m \in MissingRequired : m > MinOf(Duplicated) ) =>
            /\ err.kind = "DuplicateArgument"
            /\ err.key = arglist[MinOf(Duplicated)].longFlag

\* the same single-valued flag was given twice and the error names it
C8_Witness ==
  /\ ScanPassed
  /\ err.kind = "DuplicateArgument"
  /\ \E k \in Duplicated :
       OccCount(k) = 2 /\ err.key = arglist[k].longFlag

\* ------------------------------------------------------------------ C9
\* an optional sign and then one or more decimal digits
IsBase10Integer(v) ==
  \/ (Len(v) >= 1 /\ \A k \in 1..Len(v) : v[k] \in Digits)
  \/ (Len(v) >= 2 /\ v[1] \in {"+", "-"} /\ \A k \in 2..Len(v) : v[k] \in Digits)

\* the current token is handed as its value to an Integer declaration,
\* after its flag or as a positional
IntegerValueGiven ==
  /\ InLoop
  /\ find_arg(arglist, CurTok) = NotFound
  /\ \/ awaiting_value /\ temp_arg.Typ = IntType
     \/ /\ ~awaiting_value
        /\ FirstEligible # 0
        /\ arglist[FirstEligible].typ = IntType

\* C9: an Integer argument given a value token that is not a base-10
\* integer makes ParseArgs fail with InvalidIntegerValue, after a flag as
\* well as in a positional slot; so every Integer occurrence of the result
\* carries a base-10 integer.
C9_IntegerValidation ==
  [][ /\ (IntegerValueGiven /\ ~IsBase10Integer(CurTok)) =>
           /\ pc' = "done"
           /\ err'.kind = "InvalidIntegerValue"
           /\ err'.tok = CurTok
           /\ ret' = ret
      /\ \A j \in 1..Len(ret') :
           ret'[j].Typ = IntType => IsBase10Integer(ret'[j].Value) ]_vars

\* a positional Integer slot was handed a token that is no integer, after a
\* flag's Integer value had been accepted
C9_Witness ==
  /\ Done
  /\ err.kind = "InvalidIntegerValue"
  /\ ~awaiting_value
  /\ \E j \in 1..Len(ret) : ret[j].Typ = IntType /\ ret[j].Value = <<"1">>

\* ----------------------------------------------------------------- C10
\* the occurrence comes from the current token: it is its value, or the
\* token is the flag of its declaration
FromCurTok(occ) ==
  \/ occ.Value = CurTok
  \/ arglist[occ.Index + 1].flag = CurTok

\* C10: occurrences are listed in the order their tokens were consumed:
\* each iteration leaves ret as it is or adds one occurrence, made from
\* the token it consumed, at its end, and nothing reorders ret afterwards.
C10_EmissionOrder ==
  [][ /\ InLoop =>
           \/ ret' = ret
           \/ /\ Len(ret') = Len(ret) + 1
              /\ SubSeq(ret', 1, Len(ret)) = ret
              /\ FromCurTok(ret'[Len(ret')])
      /\ (pc = "scan" /\ ~InLoop) => ret' = ret ]_vars

\* a successful result that is not in declaration order
C10_Witness ==
  /\ Succeeded
  /\ Len(ret) >= 2
  /\ \E j \in 1..(Len(ret) - 1) : ret[j].Index > ret[j + 1].Index

\* ----------------------------------------------------------------- C11
\* a call of op has returned; Receiver is the map of the command it was
\* called on
Called(op) == call.op = op
Receiver == children[call.cmd]

\* cmd is a child in m that the token names: by its name or by an alias
MatchesChild(m, cmd, tok) ==
  cmd \in Values(m) /\ (Name(cmd) = tok \/ HasAlias(cmd, tok))

\* C11: FindCmd walks the tokens greedily from the receiver: some chain of
\* children matches the first n tokens one after the other, no child of the
\* last command of the chain matches token n + 1, the command returned is
\* the last of the chain (nil when n = 0) and the list returned is the
\* tokens from the first unmatched one on (nil when every token matched).
C11_GreedyWalk ==
  Called("FindCmd") =>
    \E n \in 0..Len(call.toks) :
      \E p \in [1..n -> Subcommands] :
        LET node(j) == IF j = 0 THEN call.cmd ELSE p[j]
        IN  /\ \A j \in 1..n :
                 MatchesChild(children[node(j - 1)], p[j], call.toks[j])
            /\ n < Len(call.toks) =>
                 ~\E cmd \in Subcommands :
                    MatchesChild(children[node(n)], cmd, call.toks[n + 1])
            /\ found.cmd = (IF n = 0 THEN NoCmd ELSE p[n])
            /\ found.rest = (IF n = Len(call.toks) THEN NilSlice
                             ELSE Slice(SubSeq(call.toks, n + 1, Len(call.toks))))

\* a walk that went one level down, by an alias, and stopped at the second token
C11_Witness ==
  /\ Called("FindCmd")
  /\ Len(call.toks) = 2
  /\ found.cmd # NoCmd
  /\ Name(found.cmd) # call.toks[1]
  /\ found.rest = Slice(<<call.toks[2]>>)

\* ----------------------------------------------------------------- C12
\* C12: resolving one token that is an alias of a registered child returns
\* that child, as resolving its name does; resolving one token that is
\* neither a name nor an alias of a child returns nil and the whole list.
C12_AliasResolution ==
  (Called("FindCmd") /\ Len(call.toks) = 1) =>
    /\ \A cmd \in Values(Receiver) :
         HasAlias(cmd, call.toks[1]) =>
           found.cmd = cmd /\ FindCmd(children, call.cmd, <<Name(cmd)>>) = {found}
    /\ (~\E cmd \in Subcommands : MatchesChild(Receiver, cmd, call.toks[1])) =>
         found = [cmd |-> NoCmd, rest |-> Slice(call.toks)]

\* ----------------------------------------------------------------- C13
\* C13: resolving the same tokens against the same tree always returns the
\* same command: what FindCmd returned is the only thing it can return.
C13_LookupIsDeterministic ==
  Called("FindCmd") => FindCmd(children, call.cmd, call.toks) = {found}

\* ----------------------------------------------------------------- C14
\* C14: a parent holds at most one child per name, every child under its
\* own name; AddCmd puts the added command under its name, whatever was
\* there, leaves every other name as it was, and does not change the number
\* of children when the name was already there.
C14_LastRegistrationWins ==
  /\ \A c \in Cmds :
       /\ \A n \in DOMAIN children[c] : Name(children[c][n]) = n
       /\ \A x, y \in Values(children[c]) : Name(x) = Name(y) => x = y
  /\ Called("AddCmd") =>
       /\ Name(call.child) \in DOMAIN Receiver
       /\ Receiver[Name(call.child)] = call.child
       /\ DOMAIN Receiver = DOMAIN before \cup {Name(call.child)}
       /\ \A n \in DOMAIN before \ {Name(call.child)} : Receiver[n] = before[n]
       /\ Name(call.child) \in DOMAIN before => len(Receiver) = len(before)

\* a command was added under a name another command held
C14_Witness ==
  /\ Called("AddCmd")
  /\ Name(call.child) \in DOMAIN before
  /\ before[Name(call.child)] # call.child
  /\ len(before) >= 2
  /\ len(Receiver) = len(before)

\* ----------------------------------------------------------------- C15
\* C15: DeleteCmd removes the child under exactly the given name and
\* nothing else: every other child stays as it was, and when no child has
\* that name (it is only an alias, it is absent, the command never had
\* children) the children are unchanged.
C15_DeleteByExactName ==
  Called("DeleteCmd") =>
    /\ DOMAIN Receiver = DOMAIN before \ {call.name}
    /\ \A n \in DOMAIN Receiver : Receiver[n] = before[n]
    /\ call.name \notin DOMAIN before => Receiver = before

\* DeleteCmd was called with a string that is only an alias of a child
C15_Witness ==
  /\ Called("DeleteCmd")
  /\ call.name \notin DOMAIN before
  /\ \E cmd \in Values(before) : HasAlias(cmd, call.name)
  /\ Receiver = before

\* ----------------------------------------------------------------- C16
\* C16: Children returns exactly the registered children, each once, in
\* ascending order of name.
C16_ChildrenSorted ==
  Called("Children") =>
    /\ Len(listed) = len(Receiver)
    /\ { listed[k] : k \in 1..Len(listed) } = Values(Receiver)
    /\ \A j, k \in 1..Len(listed) :
         j < k => StrLess(Name(listed[j]), Name(listed[k]))

\* three children were listed, the one named "help" last
C16_Witness ==
  /\ Called("Children")
  /\ Len(listed) = 3
  /\ Name(listed[3]) = HelpName

\* ----------------------------------------------------------------- C18
\* C18: hasSubcommand is true exactly when the command has more than one
\* child, or exactly one child whose name is not "help".
C18_HasSubcommand ==
  Called("hasSubcommand") =>
    (has_sub <=>
       \/ len(Receiver) > 1
       \/ len(Receiver) = 1 /\ \A cmd \in Values(Receiver) : Name(cmd) # HelpName)

\* the only child is named "help"
C18_Witness ==
  /\ Called("hasSubcommand")
  /\ DOMAIN Receiver = {HelpName}
  /\ ~has_sub

\* ----------------------------------------------------------------- C17
\* the shapes of a declaration: a dash and one alphanumeric; a bare key
\* (an alphanumeric, then one or more alphanumerics, underscores, hyphens);
\* two dashes and such a key, more than three characters in all
DashAlnum(s) == Len(s) = 2 /\ s[1] = "-" /\ s[2] \in Alnum
BareKey(s) ==
  /\ Len(s) >= 2
  /\ s[1] \notin {"_", "-"}
  /\ \A k \in 1..Len(s) : s[k] \in KeyChar
DashDashKey(s) ==
  /\ Len(s) > 3
  /\ SubSeq(s, 1, 2) = <<"-", "-">>
  /\ BareKey(SubSeq(s, 3, Len(s)))

\* the declaration is positional: longFlag not long-shaped and no short flag
DerivedPositional(flag, longFlag) == ~is_long_arg(longFlag) /\ flag = <<>>

\* the legal declarations
Legal(flag, longFlag, typ) ==
  /\ flag = <<>> \/ DashAlnum(flag)
  /\ longFlag # <<>>
  /\ IF DerivedPositional(flag, longFlag)
       THEN BareKey(longFlag) /\ typ # BoolType
       ELSE DashDashKey(longFlag)
  /\ typ \in {IntType, StringType, BoolType}

\* C17: NewCmdArg returns an argument exactly when the declaration is
\* legal, and nil with an error otherwise; the argument holds what was
\* declared and the derived classification.
C17_DeclarationValidation ==
  decl_in # <<>> =>
    /\ decl_out # Nil <=> Legal(decl_in[1], decl_in[2], decl_in[3])
    /\ decl_out # Nil =>
         decl_out = [flag |-> decl_in[1], longFlag |-> decl_in[2],
                     typ |-> decl_in[3],
                     positional |-> DerivedPositional(decl_in[1], decl_in[2]),
                     canHaveMultiple |-> decl_in[4], required |-> decl_in[5]]

\* a positional Boolean, well-formed otherwise, was refused
C17_Witness ==
  /\ decl_in # <<>>
  /\ decl_out = Nil
  /\ Legal(decl_in[1], decl_in[2], StringType)
  /\ DerivedPositional(decl_in[1], decl_in[2])
  /\ decl_in[3] = BoolType

\* ----------------------------------------------------------------- C19
\* the caller handed ParseArgs an empty string among the tokens
EmptyTokenGiven == \E k \in 1..Len(args) : args[k] = <<>>

\* C19 as claimed: when scanning completes without error no emitted
\* non-Boolean occurrence has an empty value, and ParseArgs never fails
\* with the "requires a value" error.
C19_EmptyValueUnreachable ==
  /\ ScanPassed => EmptyValued = {}
  /\ Done => err.kind # "RequiresValue"

\* C19: for a token sequence without an empty string, when scanning
\* completes without error no emitted non-Boolean occurrence has an empty
\* value, and ParseArgs does not fail with the "requires a value" error.
C19_EmptyValueNeedsEmptyToken ==
  ~EmptyTokenGiven =>
    /\ ScanPassed => EmptyValued = {}
    /\ Done => err.kind # "RequiresValue"

\* scanning completed on tokens without an empty string and validate_args
\* looked at a non-Boolean occurrence
C19_Witness ==
  /\ ScanPassed
  /\ ~EmptyTokenGiven
  /\ \E j \in 1..Len(ret) : ret[j].Typ # BoolType /\ ret[j].Value # <<>>
  /\ err.kind # "RequiresValue"

\* ----------------------------------------------------------------- C20
\* a is a positional that can have multiple values, declared before the
\* required single-valued positional b
MultiBeforeRequired(a, b) ==
  /\ a < b
  /\ arglist[a].positional /\ arglist[a].canHaveMultiple
  /\ arglist[b].positional /\ arglist[b].required /\ ~arglist[b].canHaveMultiple

\* C20: for a multi-valued positional declared before a required
\* single-valued positional there is a token sequence on which ParseArgs
\* succeeds with an occurrence of the later one.
C20_LaterPositionalReachable ==
  \A a, b \in 1..Len(arglist) :
    MultiBeforeRequired(a, b) =>
      \E as \in TokenSeqs :
        LET r == ParseArgs(arglist, as)
        IN  r[2] = NoErr /\ \E j \in 1..Len(r[1]) : r[1][j].Index = b - 1

\* ----------------------------------------------------------------- C22
\* C22: whenever ParseArgs returns without error, every token of the
\* expanded sequence that matched a non-Boolean flag declaration has one
\* occurrence of its own in the result: the declaration has as many
\* occurrences as tokens that matched it.
C22_NoFlagDropped ==
  Succeeded =>
    \A k \in 1..Len(arglist) :
      (arglist[k].typ # BoolType /\ ~arglist[k].positional) =>
        OccCount(k) = MatchedTokens(k)

\* ----------------------------------------------------------------- C23
\* ParseArgs([f, v]) returned, f the flag of the command's only
\* declaration, an Integer flag, and v a base-10 integer
IntegerFlagCall ==
  /\ Done
  /\ Len(arglist) = 1
  /\ arglist[1].typ = IntType /\ ~arglist[1].positional
  /\ Len(args) = 2
  /\ args[1] = arglist[1].flag
  /\ IsBase10Integer(args[2])

\* C23: ParseArgs([f, v]) for the only declaration, an Integer flag f, and
\* a base-10 integer v succeeds with exactly one occurrence, of value v.
C23_ValueTakenVerbatim ==
  IntegerFlagCall => err = NoErr /\ ret = <<Occurrence(1, args[2])>>

\* ----------------------------------------------------------------- C21
\* the step is one of a ParseArgs call (its start, an iteration, its end,
\* its return), is inside one call, starts one; the step is a FindCmd call
ParseArgsStep == pc # "idle" \/ pc' # "idle"
InsideParseArgs == pc # "idle" /\ pc' # "idle"
ParseArgsStarts == pc = "idle" /\ pc' = "scan"
FindCmdStep ==
  call'.op = "FindCmd" /\ <<call', found', before'>> # <<call, found, before>>

\* C21: ParseArgs and FindCmd leave every command's children and the
\* argument declarations as they are, ParseArgs leaves the caller's tokens
\* as they are and starts with an empty result, a zero mask and nothing
\* pending, and what it returns is the function ParseArgs of the command's
\* declarations and the tokens, whatever was called before.
C21_Pure ==
  [][ /\ (ParseArgsStep \/ FindCmdStep) =>
           children' = children /\ made' = made /\ arglist' = arglist
      /\ InsideParseArgs => args' = args
      /\ ParseArgsStarts =>
           /\ ret' = <<>>
           /\ arg_mask' = [k \in 1..Len(arglist) |-> 0]
           /\ temp_arg' = ZeroParsedArg
           /\ ~awaiting_value'
      /\ pc' = "done" => <<ret', err'>> = ParseArgs(arglist', args') ]_vars

\* a ParseArgs call returned occurrences after FindCmd had found a
\* subcommand of a command with two of them
C21_Witness ==
  /\ Succeeded
  /\ Len(ret) >= 2
  /\ call.op = "FindCmd"
  /\ found.cmd # NoCmd
  /\ len(children[CmdRoot]) = 2

====
